---- MODULE Spec2Model ----
(***************************************************************************)
(* ViralQuoteMachine backend (src/main.py).                                *)
(*                                                                         *)
(* Two specifications over one set of variables:                           *)
(*   SpecRender - the two renderers as pure functions of their inputs      *)
(*                (render_quote_image_with_pil, render_quote_svg);         *)
(*   Spec       - the HTTP handlers running concurrently in the server's   *)
(*                thread pool against the two collections of the database  *)
(*                (generate_quote, serve_quote_image, subscribe).          *)
(*                                                                         *)
(* A Python str is a sequence of one-character strings; None is the        *)
(* one-element sequence <<"None">>, which no str equals.                   *)
(***************************************************************************)
EXTENDS Integers, Sequences, FiniteSets, TLC

VARIABLES
    quote,        \* db["quote"]: the stored quote documents, _id = position
    subscriber,   \* db["subscriber"]: the stored subscriber documents
    pil,          \* whether "import PIL" succeeds in this runtime
    pc,           \* per request thread: where its handler stands
    arg,          \* per request thread: the request's parameter
    local,        \* per request thread: the document its find_one returned
    rasterCalls,  \* per request thread: calls of render_quote_image_with_pil
    vectorCalls,  \* per request thread: calls of render_quote_svg
    raised,       \* per request thread: the raster call raised
    resp,         \* per request thread: the response of the finished request
    phase,        \* SpecRender: "input", "raster" or "svg"
    rin,          \* SpecRender: the renderer's arguments
    rasterOut,    \* SpecRender: what render_quote_image_with_pil computed
    svgOut        \* SpecRender: what render_quote_svg computed

vars == <<quote, subscriber, pil, pc, arg, local, rasterCalls, vectorCalls,
          raised, resp, phase, rin, rasterOut, svgOut>>

sysVars == <<quote, subscriber, pil, pc, arg, local, rasterCalls, vectorCalls,
             raised, resp>>

renderVars == <<phase, rin, rasterOut, svgOut>>

(***************************************************************************)
(* Python values                                                           *)
(***************************************************************************)
None == <<"None">>

\* bool(s) of an Optional[str]
truthy(s) == s # None /\ s # <<>>

Whitespace == {" ", "\n"}

RECURSIVE SumSeq(_)
SumSeq(s) == IF s = <<>> THEN 0 ELSE Head(s) + SumSeq(Tail(s))

RECURSIVE MaxSeq(_)
MaxSeq(s) == IF s = <<>> THEN 0
             ELSE LET m == MaxSeq(Tail(s)) IN IF Head(s) > m THEN Head(s) ELSE m

RECURSIVE Flatten(_)
Flatten(ss) == IF ss = <<>> THEN <<>> ELSE Head(ss) \o Flatten(Tail(ss))

\* str.lstrip() / str.rstrip() / str.strip()
RECURSIVE lstrip(_)
lstrip(s) == IF s # <<>> /\ Head(s) \in Whitespace THEN lstrip(Tail(s)) ELSE s

RECURSIVE rstrip(_)
rstrip(s) == IF s # <<>> /\ s[Len(s)] \in Whitespace
             THEN rstrip(SubSeq(s, 1, Len(s) - 1)) ELSE s

strip(s) == rstrip(lstrip(s))

\* str.split(): the maximal runs of non-whitespace characters, in order
RECURSIVE split_from(_, _, _, _)
split_from(s, i, cur, acc) ==
    IF i > Len(s)
    THEN IF cur = <<>> THEN acc ELSE Append(acc, cur)
    ELSE IF s[i] \in Whitespace
         THEN split_from(s, i + 1, <<>>, IF cur = <<>> THEN acc ELSE Append(acc, cur))
         ELSE split_from(s, i + 1, Append(cur, s[i]), acc)

split(s) == split_from(s, 1, <<>>, <<>>)

\* str.split(sep) for a one-character separator: empty pieces are kept
RECURSIVE split_on_from(_, _, _, _, _)
split_on_from(s, sep, i, cur, acc) ==
    IF i > Len(s) THEN Append(acc, cur)
    ELSE IF s[i] = sep
         THEN split_on_from(s, sep, i + 1, <<>>, Append(acc, cur))
         ELSE split_on_from(s, sep, i + 1, Append(cur, s[i]), acc)

split_on(s, sep) == split_on_from(s, sep, 1, <<>>, <<>>)

\* str.replace(old, new) for a one-character old
RECURSIVE replace(_, _, _)
replace(s, old, new) ==
    IF s = <<>> THEN <<>>
    ELSE (IF Head(s) = old THEN new ELSE <<Head(s)>>) \o replace(Tail(s), old, new)

(***************************************************************************)
(* Fonts: what ImageFont.truetype(path, size) and draw.textsize measure.   *)
(* A glyph advances a number of font units, UnitsPerEm to the em; a line's *)
(* width is its advances scaled to the size, truncated to whole pixels;    *)
(* its height is the size for a line holding a tall glyph, less otherwise. *)
(***************************************************************************)
UnitsPerEm == 10

Advance(c) == CASE c = "M" -> 40
                [] c = "i" -> 5
                [] c = " " -> 3
                [] OTHER   -> 6

TallGlyphs == {"M", "V", "Q", "l", "t", "&"}

\* draw.textsize(line, font) for a line without newlines: <<width, height>>
textsize(line, size) ==
    <<(SumSeq([i \in 1..Len(line) |-> Advance(line[i])]) * size) \div UnitsPerEm,
      IF line = <<>> THEN 0
      ELSE IF \E i \in 1..Len(line) : line[i] \in TallGlyphs
           THEN size ELSE (size * 7) \div 10>>

\* draw.multiline_textsize(text, font, spacing)[0]: the widest of the lines
multiline_textwidth(text, size) ==
    LET ls == split_on(text, "\n")
    IN  MaxSeq([i \in 1..Len(ls) |-> textsize(ls[i], size)[1]])

(***************************************************************************)
(* render_quote_image_with_pil                                             *)
(***************************************************************************)
DEFAULT_WIDTH == 1200
DEFAULT_HEIGHT == 1500
FloorSize == 18
SizeStep == 2
LineSpacing == 10

\* the dash of f"— {author}" (U+2014), one character
DASH == "-"

WM_TEXT == <<"V","i","r","a","l","Q","u","o","t","e","M","a","c","h","i","n","e",
             ".","c","o","m">>

\* the loop of fit_text: the first size, going down, at which the text fits
RECURSIVE fit_loop(_, _, _)
fit_loop(text, max_width, size) ==
    IF size > FloorSize
    THEN IF multiline_textwidth(text, size) <= max_width
         THEN size
         ELSE fit_loop(text, max_width, size - SizeStep)
    ELSE FloorSize

\* a fit_text that accepts a size only when the text is strictly narrower
RECURSIVE fit_loop_strict(_, _, _)
fit_loop_strict(text, max_width, size) ==
    IF size > FloorSize
    THEN IF multiline_textwidth(text, size) < max_width
         THEN size
         ELSE fit_loop_strict(text, max_width, size - SizeStep)
    ELSE FloorSize

fit_text_strict(text, max_width, max_font_size) ==
    fit_loop_strict(text, max_width, max_font_size)

\* fit_text: the size of the font it returns
fit_text(text, max_width, max_font_size) == fit_loop(text, max_width, max_font_size)

\* the wrap loop: "for w in words", then the trailing "if current"
RECURSIVE wrap_loop(_, _, _, _, _, _)
wrap_loop(words, i, current, lines, size, max_text_width) ==
    IF i > Len(words)
    THEN IF current # <<>> THEN Append(lines, current) ELSE lines
    ELSE LET w    == words[i]
             test == strip(current \o <<" ">> \o w)
             tw   == textsize(test, size)[1]
         IN  IF tw <= max_text_width
             THEN wrap_loop(words, i + 1, test, lines, size, max_text_width)
             ELSE wrap_loop(words, i + 1, w,
                            IF current # <<>> THEN Append(lines, current) ELSE lines,
                            size, max_text_width)

\* a wrap loop that measures the word alone instead of the line with the word
RECURSIVE wrap_loop_word(_, _, _, _, _, _)
wrap_loop_word(words, i, current, lines, size, max_text_width) ==
    IF i > Len(words)
    THEN IF current # <<>> THEN Append(lines, current) ELSE lines
    ELSE LET w    == words[i]
             test == strip(current \o <<" ">> \o w)
             tw   == textsize(w, size)[1]
         IN  IF tw <= max_text_width
             THEN wrap_loop_word(words, i + 1, test, lines, size, max_text_width)
             ELSE wrap_loop_word(words, i + 1, w,
                                 IF current # <<>> THEN Append(lines, current) ELSE lines,
                                 size, max_text_width)

\* a wrap loop that forgets the line being built when the words run out
RECURSIVE wrap_loop_droplast(_, _, _, _, _, _)
wrap_loop_droplast(words, i, current, lines, size, max_text_width) ==
    IF i > Len(words)
    THEN lines
    ELSE LET w    == words[i]
             test == strip(current \o <<" ">> \o w)
             tw   == textsize(test, size)[1]
         IN  IF tw <= max_text_width
             THEN wrap_loop_droplast(words, i + 1, test, lines, size, max_text_width)
             ELSE wrap_loop_droplast(words, i + 1, w,
                                     IF current # <<>> THEN Append(lines, current) ELSE lines,
                                     size, max_text_width)

wrap_text_word(text, size, max_text_width) ==
    wrap_loop_word(split(text), 1, <<>>, <<>>, size, max_text_width)

wrap_text_droplast(text, size, max_text_width) ==
    wrap_loop_droplast(split(text), 1, <<>>, <<>>, size, max_text_width)

\* "Wrap text manually": the lines the quote is drawn in
wrap_text(text, size, max_text_width) ==
    wrap_loop(split(text), 1, <<>>, <<>>, size, max_text_width)

\* total_text_height
total_text_height(lines, size) ==
    SumSeq([i \in 1..Len(lines) |-> textsize(lines[i], size)[2]])
        + (Len(lines) - 1) * LineSpacing

\* "for line in lines": the draw.text calls, and y after the loop
RECURSIVE draw_loop(_, _, _, _, _, _)
draw_loop(lines, i, y, size, width, draws) ==
    IF i > Len(lines) THEN [draws |-> draws, y |-> y]
    ELSE LET sz == textsize(lines[i], size)
         IN  draw_loop(lines, i + 1, y + sz[2] + LineSpacing, size, width,
                       Append(draws, [x |-> (width - sz[1]) \div 2, y |-> y,
                                      s |-> lines[i]]))

\* a draw loop that advances by the line's height only
RECURSIVE draw_loop_nospacing(_, _, _, _, _, _)
draw_loop_nospacing(lines, i, y, size, width, draws) ==
    IF i > Len(lines) THEN [draws |-> draws, y |-> y]
    ELSE LET sz == textsize(lines[i], size)
         IN  draw_loop_nospacing(lines, i + 1, y + sz[2], size, width,
                       Append(draws, [x |-> (width - sz[1]) \div 2, y |-> y,
                                      s |-> lines[i]]))

draw_lines_nospacing(lines, size, width, height) ==
    draw_loop_nospacing(lines, 1, (height - total_text_height(lines, size)) \div 2,
                        size, width, <<>>)

\* y = (height - total_text_height) // 2 and the loop drawing the lines
draw_lines(lines, size, width, height) ==
    draw_loop(lines, 1, (height - total_text_height(lines, size)) \div 2,
              size, width, <<>>)

render_quote_image_with_pil(text, author, watermark, quality, width, height) ==
    LET margin         == (width * 8) \div 100
        max_text_width == width - margin * 2
        size           == fit_text(text, max_text_width, width \div 10)
        light_size     == (width * 35) \div 1000
        lines          == wrap_text(text, size, max_text_width)
        drawn          == draw_lines(lines, size, width, height)
        author_line    == <<DASH, " ">> \o author
        asz            == textsize(author_line, light_size)
        wsz            == textsize(WM_TEXT, light_size)
    IN  [media             |-> "image/png",
         margin            |-> margin,
         max_text_width    |-> max_text_width,
         size              |-> size,
         lines             |-> lines,
         total_text_height |-> total_text_height(lines, size),
         draws             |-> drawn.draws,
         author_draws      |-> IF truthy(author)
                               THEN <<[x |-> (width - asz[1]) \div 2,
                                       y |-> drawn.y + (height * 2) \div 100,
                                       s |-> author_line]>>
                               ELSE <<>>,
         wm_draws          |-> IF watermark
                               THEN <<[x |-> width - wsz[1] - margin,
                                       y |-> height - wsz[2] - margin,
                                       s |-> WM_TEXT]>>
                               ELSE <<>>]

(***************************************************************************)
(* render_quote_svg                                                        *)
(***************************************************************************)
AMP == <<"&", "a", "m", "p", ";">>
LT == <<"&", "l", "t", ";">>
GT == <<"&", "g", "t", ";">>

\* an esc that replaces '&' last, after '<' and '>' became entities
esc_amp_last(s) == replace(replace(replace(s, "<", LT), ">", GT), "&", AMP)

esc(s) == replace(replace(replace(s, "&", AMP), "<", LT), ">", GT)

render_quote_svg(text, author, watermark, width, height) ==
    [media       |-> "image/svg+xml",
     width       |-> width,
     height      |-> height,
     text        |-> esc(text),
     author_text |-> IF truthy(author) THEN <<esc(author)>> ELSE <<>>,
     wm          |-> IF watermark
                     THEN <<[x |-> width - 40, y |-> height - 40, s |-> WM_TEXT]>>
                     ELSE <<>>]

(***************************************************************************)
(* The request threads and the database                                    *)
(***************************************************************************)
NumReq == 2
MaxQuotes == 1
MaxSubs == 2

Reqs == 1..NumReq

NoDoc == [found |-> FALSE]
NoArg == [kind |-> "none"]
NoResp == [status |-> 0]

RenderIdle ==
    /\ phase = "idle"
    /\ rin = [text |-> <<>>, author |-> None, watermark |-> FALSE, quality |-> "standard",
              width |-> DEFAULT_WIDTH, height |-> DEFAULT_HEIGHT]
    /\ rasterOut = [media |-> "none"]
    /\ svgOut = [media |-> "none"]

SysInit ==
    /\ quote = <<>>
    /\ subscriber = <<>>
    /\ pil \in BOOLEAN
    /\ pc = [r \in Reqs |-> "idle"]
    /\ arg = [r \in Reqs |-> NoArg]
    /\ local = [r \in Reqs |-> NoDoc]
    /\ rasterCalls = [r \in Reqs |-> 0]
    /\ vectorCalls = [r \in Reqs |-> 0]
    /\ raised = [r \in Reqs |-> FALSE]
    /\ resp = [r \in Reqs |-> NoResp]

Init == SysInit /\ RenderIdle

\* database.create_document(collection_name, data): the collection with the
\* document inserted; its _id is its position
create_document(collection, data) == Append(collection, data)

\* collection.find_one({"_id": id})
find_by_id(collection, id) ==
    IF id \in 1..Len(collection) THEN [found |-> TRUE, doc |-> collection[id]] ELSE NoDoc

\* collection.find_one({"email": email}): whether a document matches
find_by_email(collection, email) ==
    \E i \in 1..Len(collection) : collection[i].email = email

\* the bodies of POST /api/quotes/generate
GenerateRequests ==
    {[text |-> None, author |-> None, premium |-> FALSE],
     [text |-> <<" ", "<", "M", " ">>, author |-> <<"&">>, premium |-> TRUE]}

\* what generate_original_quote can return: a start, a middle and an end drawn
\* at random, joined by spaces
generate_original_quote == {<<"M", "i", " ", "M">>}

\* the bodies of POST /api/subscribe
Emails == {<<"a", "@", "x">>, <<"b", "@", "x">>, <<"a", "x">>}

\* generate_quote: one insert, then the response
GenerateQuote(r) ==
    /\ pc[r] = "idle"
    /\ Len(quote) < MaxQuotes
    /\ \E req \in GenerateRequests :
       \E text \in (IF truthy(req.text) THEN {strip(req.text)}
                    ELSE generate_original_quote) :
           /\ quote' = create_document(quote,
                           [text      |-> text,
                            author    |-> req.author,
                            watermark |-> ~req.premium,
                            quality   |-> IF req.premium THEN "high" ELSE "standard",
                            likes     |-> 0,
                            views     |-> 0,
                            posted    |-> FALSE])
           /\ resp' = [resp EXCEPT ![r] = [status |-> 200, id |-> Len(quote) + 1]]
    /\ arg' = [arg EXCEPT ![r] = [kind |-> "generate"]]
    /\ pc' = [pc EXCEPT ![r] = "done"]
    /\ UNCHANGED <<subscriber, pil, local, rasterCalls, vectorCalls, raised>>
    /\ UNCHANGED renderVars

\* a serve_quote_image whose lookup also counts the view
ImageFindCountView(r) ==
    /\ pc[r] = "idle"
    /\ \E id \in 1..(MaxQuotes + 1) :
        LET q == find_by_id(quote, id)
        IN  /\ arg' = [arg EXCEPT ![r] = [kind |-> "image", id |-> id]]
            /\ local' = [local EXCEPT ![r] = q]
            /\ IF ~q.found
               THEN /\ resp' = [resp EXCEPT ![r] = [status |-> 404]]
                    /\ pc' = [pc EXCEPT ![r] = "done"]
                    /\ quote' = quote
               ELSE /\ resp' = resp
                    /\ pc' = [pc EXCEPT ![r] = "img_render"]
                    /\ quote' = [quote EXCEPT ![id].views = 1]
    /\ UNCHANGED <<subscriber, pil, rasterCalls, vectorCalls, raised>>
    /\ UNCHANGED renderVars

\* serve_quote_image, to its lookup: 404 when no such quote is stored
ImageFind(r) ==
    /\ pc[r] = "idle"
    /\ \E id \in 1..(MaxQuotes + 1) :
        LET q == find_by_id(quote, id)
        IN  /\ arg' = [arg EXCEPT ![r] = [kind |-> "image", id |-> id]]
            /\ local' = [local EXCEPT ![r] = q]
            /\ IF ~q.found
               THEN /\ resp' = [resp EXCEPT ![r] = [status |-> 404]]
                    /\ pc' = [pc EXCEPT ![r] = "done"]
               ELSE /\ resp' = resp
                    /\ pc' = [pc EXCEPT ![r] = "img_render"]
    /\ UNCHANGED <<quote, subscriber, pil, rasterCalls, vectorCalls, raised>>
    /\ UNCHANGED renderVars

\* the arguments serve_quote_image renders with
q_text(r) == local[r].doc.text
q_author(r) == local[r].doc.author
q_watermark(r) == local[r].doc.watermark
q_quality(r) == local[r].doc.quality

\* a serve_quote_image that lets the raster renderer's exception through
ImageRasterPropagate(r) ==
    /\ pc[r] = "img_render"
    /\ IF pil
       THEN /\ rasterCalls' = [rasterCalls EXCEPT ![r] = @ + 1]
            /\ \/ /\ resp' = [resp EXCEPT ![r] =
                                 [status  |-> 200, media |-> "image/png",
                                  content |-> render_quote_image_with_pil(
                                                  q_text(r), q_author(r), q_watermark(r),
                                                  q_quality(r), DEFAULT_WIDTH,
                                                  DEFAULT_HEIGHT)]]
                  /\ pc' = [pc EXCEPT ![r] = "done"]
                  /\ raised' = raised
               \/ /\ raised' = [raised EXCEPT ![r] = TRUE]
                  /\ resp' = [resp EXCEPT ![r] = [status |-> 500]]
                  /\ pc' = [pc EXCEPT ![r] = "done"]
       ELSE /\ pc' = [pc EXCEPT ![r] = "img_svg"]
            /\ UNCHANGED <<rasterCalls, raised, resp>>
    /\ UNCHANGED <<quote, subscriber, pil, arg, local, vectorCalls>>
    /\ UNCHANGED renderVars

\* a serve_quote_image that tries the raster renderer again after it raised
ImageRasterRetry(r) ==
    /\ pc[r] = "img_render"
    /\ IF pil
       THEN /\ rasterCalls' = [rasterCalls EXCEPT ![r] = @ + 1]
            /\ \/ /\ resp' = [resp EXCEPT ![r] =
                                 [status  |-> 200, media |-> "image/png",
                                  content |-> render_quote_image_with_pil(
                                                  q_text(r), q_author(r), q_watermark(r),
                                                  q_quality(r), DEFAULT_WIDTH,
                                                  DEFAULT_HEIGHT)]]
                  /\ pc' = [pc EXCEPT ![r] = "done"]
                  /\ raised' = raised
               \/ /\ raised' = [raised EXCEPT ![r] = TRUE]
                  /\ pc' = [pc EXCEPT ![r] = IF raised[r] THEN "img_svg" ELSE "img_render"]
                  /\ resp' = resp
       ELSE /\ pc' = [pc EXCEPT ![r] = "img_svg"]
            /\ UNCHANGED <<rasterCalls, raised, resp>>
    /\ UNCHANGED <<quote, subscriber, pil, arg, local, vectorCalls>>
    /\ UNCHANGED renderVars

\* serve_quote_image, "if pil_available(): try: ... except Exception: pass":
\* the raster renderer is called when PIL imports; it returns the PNG, or it
\* raises (a font that does not load, a drawing call that fails) and the
\* handler goes on to the fallback
ImageRaster(r) ==
    /\ pc[r] = "img_render"
    /\ IF pil
       THEN /\ rasterCalls' = [rasterCalls EXCEPT ![r] = @ + 1]
            /\ \/ /\ resp' = [resp EXCEPT ![r] =
                                 [status  |-> 200, media |-> "image/png",
                                  content |-> render_quote_image_with_pil(
                                                  q_text(r), q_author(r), q_watermark(r),
                                                  q_quality(r), DEFAULT_WIDTH,
                                                  DEFAULT_HEIGHT)]]
                  /\ pc' = [pc EXCEPT ![r] = "done"]
                  /\ raised' = raised
               \/ /\ raised' = [raised EXCEPT ![r] = TRUE]
                  /\ pc' = [pc EXCEPT ![r] = "img_svg"]
                  /\ resp' = resp
       ELSE /\ pc' = [pc EXCEPT ![r] = "img_svg"]
            /\ UNCHANGED <<rasterCalls, raised, resp>>
    /\ UNCHANGED <<quote, subscriber, pil, arg, local, vectorCalls>>
    /\ UNCHANGED renderVars

\* serve_quote_image, "Fallback to SVG"
ImageSvg(r) ==
    /\ pc[r] = "img_svg"
    /\ vectorCalls' = [vectorCalls EXCEPT ![r] = @ + 1]
    /\ resp' = [resp EXCEPT ![r] =
                   [status  |-> 200, media |-> "image/svg+xml",
                    content |-> render_quote_svg(q_text(r), q_author(r), q_watermark(r),
                                                 DEFAULT_WIDTH, DEFAULT_HEIGHT)]]
    /\ pc' = [pc EXCEPT ![r] = "done"]
    /\ UNCHANGED <<quote, subscriber, pil, arg, local, rasterCalls, raised>>
    /\ UNCHANGED renderVars

\* subscribe, to its lookup: 400 for an email that is empty or has no "@",
\* "Already subscribed" when find_one returns a document
SubscribeFind(r) ==
    /\ pc[r] = "idle"
    /\ Len(subscriber) + Cardinality({t \in Reqs : pc[t] = "sub_create"}) < MaxSubs
    /\ \E email \in Emails :
        /\ arg' = [arg EXCEPT ![r] = [kind |-> "subscribe", email |-> email]]
        /\ IF email = <<>> \/ ~(\E i \in 1..Len(email) : email[i] = "@")
           THEN /\ resp' = [resp EXCEPT ![r] = [status |-> 400]]
                /\ pc' = [pc EXCEPT ![r] = "done"]
           ELSE IF find_by_email(subscriber, email)
                THEN /\ resp' = [resp EXCEPT ![r] =
                                    [status |-> 200, message |-> "Already subscribed"]]
                     /\ pc' = [pc EXCEPT ![r] = "done"]
                ELSE /\ resp' = resp
                     /\ pc' = [pc EXCEPT ![r] = "sub_create"]
    /\ UNCHANGED <<quote, subscriber, pil, local, rasterCalls, vectorCalls, raised>>
    /\ UNCHANGED renderVars

\* subscribe, the insert after a lookup that found nothing
SubscribeCreate(r) ==
    /\ pc[r] = "sub_create"
    /\ subscriber' = create_document(subscriber,
                         [email |-> arg[r].email, active |-> TRUE, created_from |-> "web"])
    /\ resp' = [resp EXCEPT ![r] = [status |-> 200, message |-> "none"]]
    /\ pc' = [pc EXCEPT ![r] = "done"]
    /\ UNCHANGED <<quote, pil, arg, local, rasterCalls, vectorCalls, raised>>
    /\ UNCHANGED renderVars

\* the response is sent and the thread takes the next request
Return(r) ==
    /\ pc[r] = "done"
    /\ pc' = [pc EXCEPT ![r] = "idle"]
    /\ arg' = [arg EXCEPT ![r] = NoArg]
    /\ local' = [local EXCEPT ![r] = NoDoc]
    /\ rasterCalls' = [rasterCalls EXCEPT ![r] = 0]
    /\ vectorCalls' = [vectorCalls EXCEPT ![r] = 0]
    /\ raised' = [raised EXCEPT ![r] = FALSE]
    /\ resp' = [resp EXCEPT ![r] = NoResp]
    /\ UNCHANGED <<quote, subscriber, pil>>
    /\ UNCHANGED renderVars

Next ==
    \E r \in Reqs :
        \/ GenerateQuote(r)
        \/ ImageFind(r)
        \/ ImageRaster(r)
        \/ ImageSvg(r)
        \/ SubscribeFind(r)
        \/ SubscribeCreate(r)
        \/ Return(r)

Spec == Init /\ [][Next]_vars

(***************************************************************************)
(* SpecRender: the renderers applied to bounded inputs                     *)
(***************************************************************************)
MaxTextLen == 5
MaxEscLen == 4

LayoutChars == {"M", "i", " ", "\n"}
EscChars == {"&", "<", ">", "l", "t", ";"}

SeqsUpTo(S, n) == UNION {[1..k -> S] : k \in 0..n}

LayoutTexts == SeqsUpTo(LayoutChars, MaxTextLen)

EscTexts == SeqsUpTo(EscChars, MaxEscLen)
            \cup {AMP, AMP \o <<"l", "t", ";">>, <<"&", "#", "6", "0", ";">>,
                  <<"a", "&", "&", "b">>, LT \o GT \o AMP}

\* <<width, height>>: the default canvas and two small ones
Canvases == {<<DEFAULT_WIDTH, DEFAULT_HEIGHT>>, <<210, 263>>, <<100, 125>>}

RenderInputs ==
    {[text |-> t, author |-> aw[1], watermark |-> aw[2], quality |-> "standard",
      width |-> c[1], height |-> c[2]] :
        t \in LayoutTexts, aw \in {<<None, FALSE>>, <<<<"i">>, TRUE>>}, c \in Canvases}
    \cup
    {[text |-> t, author |-> a, watermark |-> FALSE, quality |-> "high",
      width |-> DEFAULT_WIDTH, height |-> DEFAULT_HEIGHT] :
        t \in EscTexts, a \in {None, <<"<", "&", "g", "t", ";">>}}

InitRender ==
    /\ SysInit
    /\ pil = TRUE
    /\ phase = "input"
    /\ rin \in RenderInputs
    /\ rasterOut = [media |-> "none"]
    /\ svgOut = [media |-> "none"]

\* one call of render_quote_image_with_pil that returns
RenderRaster ==
    /\ phase = "input"
    /\ phase' = "raster"
    /\ rasterOut' = render_quote_image_with_pil(rin.text, rin.author, rin.watermark,
                                                rin.quality, rin.width, rin.height)
    /\ UNCHANGED <<rin, svgOut>>
    /\ UNCHANGED sysVars

\* one call of render_quote_svg
RenderSvg ==
    /\ phase = "input"
    /\ phase' = "svg"
    /\ svgOut' = render_quote_svg(rin.text, rin.author, rin.watermark,
                                  rin.width, rin.height)
    /\ UNCHANGED <<rin, rasterOut>>
    /\ UNCHANGED sysVars

NextRender == RenderRaster \/ RenderSvg

SpecRender == InitRender /\ [][NextRender]_vars

(***************************************************************************)
(* Properties of the renderers (checked under SpecRender)                  *)
(***************************************************************************)
MaxOf(S) == CHOOSE m \in S : \A x \in S : x <= m

\* the candidate sizes: the start size int(0.10 * width) less a multiple of 2,
\* not below 18
CandidateSizes(width) ==
    {s \in FloorSize..(width \div 10) : ((width \div 10) - s) % 2 = 0}

\* the size the text-fitting rule names, for a given test of "the text fits"
LargestFitting(width, Fits(_)) ==
    LET ok == {s \in CandidateSizes(width) : Fits(s)}
    IN  IF ok = {} THEN FloorSize ELSE MaxOf(ok)

\* the usable width as the code computes it: the margin is truncated first
UsableWidth(width) == width - 2 * ((width * 8) \div 100)

\* C2 as stated: for non-empty text the chosen font size is the largest
\* candidate in [18, 0.10*width] whose measured width is at most
\* width - 0.16*width (that is, 100 * measured <= 84 * width), and 18 if none.
C2_AsStated ==
    (phase = "raster" /\ rin.text # <<>>) =>
        LET FitsExact(s) == 100 * multiline_textwidth(rin.text, s) <= 84 * rin.width
        IN  rasterOut.size = LargestFitting(rin.width, FitsExact)

\* C2 amended: for non-empty text the chosen font size is the largest
\* candidate in [18, int(0.10*width)] whose measured width is at most
\* width - 2*int(0.08*width), and 18 if none.
C2_FitText ==
    (phase = "raster" /\ rin.text # <<>>) =>
        LET FitsUsable(s) == multiline_textwidth(rin.text, s) <= UsableWidth(rin.width)
        IN  rasterOut.size = LargestFitting(rin.width, FitsUsable)

\* a text that fits at neither the start size nor the floor, but in between
C2_Witness ==
    /\ phase = "raster"
    /\ rin.text # <<>>
    /\ rasterOut.size > FloorSize
    /\ rasterOut.size < rin.width \div 10
    /\ multiline_textwidth(rin.text, rasterOut.size) = UsableWidth(rin.width)

LineWidth(line) == textsize(line, rasterOut.size)[1]

IsWordOf(w, text) == \E k \in 1..Len(split(text)) : split(text)[k] = w

\* C3: every word of every wrapped line is a whole word of the text, and a line
\* is wider than the usable width only if it is one word that is itself wider.
C3_Wrap ==
    phase = "raster" =>
        \A i \in 1..Len(rasterOut.lines) :
            LET line == rasterOut.lines[i]
                ws   == split(line)
            IN  /\ \A k \in 1..Len(ws) : IsWordOf(ws[k], rin.text)
                /\ \/ LineWidth(line) <= UsableWidth(rin.width)
                   \/ Len(ws) = 1 /\ line = ws[1]

\* a wrap of several lines, one of them a single word wider than the usable width
C3_Witness ==
    /\ phase = "raster"
    /\ Len(rasterOut.lines) >= 2
    /\ \E i \in 1..Len(rasterOut.lines) :
           LineWidth(rasterOut.lines[i]) > UsableWidth(rin.width)

\* C4 as stated: for text "", no author and no watermark, the wrap yields zero
\* lines, the total block height is 0, and neither author nor watermark is drawn.
C4_EmptyText ==
    (phase = "raster" /\ rin.text = <<>> /\ rin.author = None /\ ~rin.watermark) =>
        /\ rasterOut.lines = <<>>
        /\ rasterOut.total_text_height = 0
        /\ rasterOut.author_draws = <<>>
        /\ rasterOut.wm_draws = <<>>

\* the entity of one character
Entity(c) == CASE c = "&" -> AMP [] c = "<" -> LT [] c = ">" -> GT [] OTHER -> <<c>>

StartsWith(s, i, pre) ==
    i + Len(pre) - 1 <= Len(s) /\ SubSeq(s, i, i + Len(pre) - 1) = pre

\* decoding the three entities, left to right in one pass
RECURSIVE unescape_from(_, _)
unescape_from(s, i) ==
    IF i > Len(s) THEN <<>>
    ELSE IF StartsWith(s, i, AMP) THEN <<"&">> \o unescape_from(s, i + Len(AMP))
    ELSE IF StartsWith(s, i, LT) THEN <<"<">> \o unescape_from(s, i + Len(LT))
    ELSE IF StartsWith(s, i, GT) THEN <<">">> \o unescape_from(s, i + Len(GT))
    ELSE <<s[i]>> \o unescape_from(s, i + 1)

unescape(s) == unescape_from(s, 1)

EscapedFormOf(e, s) ==
    /\ e = Flatten([i \in 1..Len(s) |-> Entity(s[i])])
    /\ \A i \in 1..Len(e) :
           /\ e[i] \notin {"<", ">"}
           /\ e[i] = "&" => (StartsWith(e, i, AMP) \/ StartsWith(e, i, LT)
                             \/ StartsWith(e, i, GT))
    /\ unescape(e) = s

\* C5: the text and the author are embedded with '&', '<', '>' replaced by their
\* entities: no raw '<' or '>', every '&' starts an entity, and decoding the
\* entities gives the original string back.
C5_Escaping ==
    phase = "svg" =>
        /\ EscapedFormOf(svgOut.text, rin.text)
        /\ truthy(rin.author) =>
               /\ Len(svgOut.author_text) = 1
               /\ EscapedFormOf(svgOut.author_text[1], rin.author)

\* a text that is itself entity-like, beside an author holding '<' and an entity
C5_Witness ==
    /\ phase = "svg"
    /\ rin.text = AMP \o <<"l", "t", ";">>
    /\ svgOut.text = AMP \o <<"a", "m", "p", ";", "l", "t", ";">>
    /\ truthy(rin.author)
    /\ \E i \in 1..Len(rin.author) : rin.author[i] = "<"

LineHeight(line) == textsize(line, rasterOut.size)[2]

\* C6: the first line is drawn at y = (height - (sum h_i + 10*(N-1))) // 2 and
\* each following line at the previous line's y plus its height plus 10.
C6_Centering ==
    phase = "raster" =>
        LET lines == rasterOut.lines
            N     == Len(lines)
            h     == [i \in 1..N |-> LineHeight(lines[i])]
            d     == rasterOut.draws
        IN  /\ Len(d) = N
            /\ \A i \in 1..N : d[i].s = lines[i]
            /\ N >= 1 => d[1].y = (rin.height - (SumSeq(h) + 10 * (N - 1))) \div 2
            /\ \A i \in 2..N : d[i].y = d[i - 1].y + h[i - 1] + 10

\* lines of different heights, and a block whose leftover height is odd
C6_Witness ==
    /\ phase = "raster"
    /\ Len(rasterOut.draws) >= 2
    /\ LineHeight(rasterOut.lines[1]) # LineHeight(rasterOut.lines[2])
    /\ (rin.height - rasterOut.total_text_height) % 2 = 1

\* C9: the words of the wrapped lines, read in order, are text.split() exactly,
\* and no line is empty.
C9_WrapPreserves ==
    phase = "raster" =>
        /\ Flatten([i \in 1..Len(rasterOut.lines) |-> split(rasterOut.lines[i])])
               = split(rin.text)
        /\ \A i \in 1..Len(rasterOut.lines) : rasterOut.lines[i] # <<>>

\* a text with newlines and repeated spaces wrapped into several lines
C9_Witness ==
    /\ phase = "raster"
    /\ Len(rasterOut.lines) >= 2
    /\ Len(split(rin.text)) >= 3
    /\ \E i \in 1..Len(rin.text) : rin.text[i] = "\n"

(***************************************************************************)
(* Properties of the handlers (checked under Spec)                         *)
(***************************************************************************)
ImageDone(r) == pc[r] = "done" /\ arg[r].kind = "image"

\* C1: an image request for a stored quote whose raster rendering raised, or
\* that found PIL not importable, is answered 200 with the vector renderer's
\* document of that quote, media type image/svg+xml; the error is not passed on.
C1_Fallback ==
    \A r \in Reqs :
        (ImageDone(r) /\ local[r].found /\ (raised[r] \/ ~pil)) =>
            /\ resp[r].status = 200
            /\ resp[r].media = "image/svg+xml"
            /\ unescape(resp[r].content.text) = local[r].doc.text

\* a stored quote with an author, answered by the fallback after the raster call raised
C1_Witness ==
    \E r \in Reqs :
        /\ ImageDone(r) /\ local[r].found /\ raised[r]
        /\ resp[r].media = "image/svg+xml"
        /\ truthy(local[r].doc.author)

\* the step is one of request thread r's serve_quote_image
ImageStep(r) == pc'[r] # pc[r] /\ pc[r] # "done" /\ arg'[r].kind = "image"

\* C7: no step of an image request, by the raster path, by the fallback or
\* ending in 404, changes a stored quote document or another collection.
C7_NoMutation ==
    [][\A r \in Reqs : ImageStep(r) => (quote' = quote /\ subscriber' = subscriber)]_vars

\* image requests answered by each path while a quote and a subscriber are stored
C7_Witness ==
    /\ Len(quote) >= 1 /\ Len(subscriber) >= 1
    /\ \E r \in Reqs : ImageDone(r) /\ resp[r].status = 200
    /\ \E r \in Reqs : ImageDone(r) /\ resp[r].status = 404

\* C8: within one image request the raster renderer is called at most once, the
\* vector renderer at most once and only after the raster call raised or was
\* skipped for want of PIL, and not at all when the raster call returned.
C8_SingleAttempt ==
    \A r \in Reqs :
        /\ rasterCalls[r] <= 1
        /\ vectorCalls[r] <= 1
        /\ vectorCalls[r] = 1 =>
               \/ rasterCalls[r] = 1 /\ raised[r]
               \/ rasterCalls[r] = 0 /\ ~pil
        /\ (rasterCalls[r] = 1 /\ ~raised[r]) => (vectorCalls[r] = 0 /\ pc[r] = "done")
        /\ (ImageDone(r) /\ resp[r].status = 200 /\ resp[r].media = "image/png") =>
               (rasterCalls[r] = 1 /\ vectorCalls[r] = 0)

\* one request served by the fallback after a failed raster call, beside one
\* served by the raster renderer
C8_Witness ==
    /\ \E r \in Reqs : ImageDone(r) /\ rasterCalls[r] = 1 /\ vectorCalls[r] = 1
    /\ \E r \in Reqs : ImageDone(r) /\ rasterCalls[r] = 1 /\ vectorCalls[r] = 0

\* C10 as stated: the subscriber collection holds at most one document per
\* email, an email without "@" is answered 400, and every stored email has "@".
C10_UniqueSubscribers ==
    /\ \A i, j \in 1..Len(subscriber) :
           subscriber[i].email = subscriber[j].email => i = j
    /\ \A i \in 1..Len(subscriber) :
           \E k \in 1..Len(subscriber[i].email) : subscriber[i].email[k] = "@"
    /\ \A r \in Reqs :
           (pc[r] = "done" /\ arg[r].kind = "subscribe"
              /\ ~(\E k \in 1..Len(arg[r].email) : arg[r].email[k] = "@")) =>
               resp[r].status = 400

====
